---- MODULE Spec2Model ----
(***************************************************************************)
(* SmartMailGuard API (src/main.py): the disposable-domain list manager    *)
(* (startup load, background refresh loop, published set), the memoized    *)
(* MX resolver, the scorer and the single / bulk validation handlers.      *)
(*                                                                         *)
(* Python strings are sequences of one-character strings, so that          *)
(* split / lower / strip / splitlines are computed and not assumed.        *)
(***************************************************************************)
EXTENDS Integers, Sequences, FiniteSets, TLC

\* ------------------------------------------------------------------ bounds

\* Refresh ticks modelled after the startup load (the loop itself is endless).
MaxTicks == 2
\* HTTP requests received within one refresh interval (SpecServing).
MaxRequests == 2
\* HTTP requests received in the behaviours that include startup and refreshes.
MaxStartupRequests == 1
\* Capacity of the MX memo: stands for maxsize=1000 (src/main.py:98), scaled
\* down so that capacity pressure is reached with a handful of domains.
MxCacheSize == 2
\* Scores probed beyond both ends of 0..100 in SpecPure.
ProbePad == 12

\* ------------------------------------------------------------- str helpers

Max(a, b) == IF a >= b THEN a ELSE b

\* str.lower on one character (the letters the inputs use).
LowerChar(c) ==
    CASE c = "M" -> "m"
      [] c = "I" -> "i"
      [] c = "O" -> "o"
      [] c = "X" -> "x"
      [] c = "Y" -> "y"
      [] c = "Z" -> "z"
      [] c = "T" -> "t"
      [] c = "K" -> "k"
      [] c = "P" -> "p"
      [] OTHER -> c

\* str.lower
Lower(s) == [i \in 1..Len(s) |-> LowerChar(s[i])]

\* Index of the last occurrence of character c in s, 0 when there is none.
LastIndexOf(s, c) ==
    LET hits == {i \in 1..Len(s) : s[i] = c}
    IN  IF hits = {} THEN 0 ELSE CHOOSE i \in hits : \A j \in hits : j <= i

\* s.split(c)[-1]: the text after the last c, the whole of s when c is absent.
SplitLast(s, c) == SubSeq(s, LastIndexOf(s, c) + 1, Len(s))

IsSpace(c) == c = " "

\* str.strip
Strip(s) ==
    LET keep == {i \in 1..Len(s) : ~IsSpace(s[i])}
    IN  IF keep = {} THEN <<>>
        ELSE SubSeq(s, CHOOSE i \in keep : \A j \in keep : i <= j,
                       CHOOSE i \in keep : \A j \in keep : j <= i)

\* str.splitlines on "\n": no empty last line after a final line break.
RECURSIVE SplitLines(_)
SplitLines(s) ==
    IF s = <<>> THEN <<>>
    ELSE LET brk == {i \in 1..Len(s) : s[i] = "\n"}
         IN  IF brk = {} THEN <<s>>
             ELSE LET i == CHOOSE k \in brk : \A j \in brk : k <= j
                  IN  <<SubSeq(s, 1, i - 1)>> \o SplitLines(SubSeq(s, i + 1, Len(s)))

\* --------------------------------------------------------------- constants

\* Fallback TLD heuristic.
suspicious_tlds ==
    { <<"x","y","z">>, <<"t","o","p">>, <<"t","k">>, <<"l","o","l">>,
      <<"c","l","i","c","k">>, <<"g","q">>, <<"c","f">> }

\* The three sources, in list order; only the first ends with ".json".
DISPOSABLE_LIST_URLS == <<"index.json", "domains.txt", "disposable_email_blocklist.conf">>

IsJsonUrl(url) == url = "index.json"

\* ------------------------------------------------------------------ scorer

High == "High trust: valid format, likely safe"
Medium == "Medium trust: may be valid but needs caution"
Low == "Low trust: suspicious or disposable"
VeryLow == "Very low trust: likely fake or invalid"

\* The tiers with strict comparisons.
interpret_score_strict(score) ==
    IF score > 90 THEN High
    ELSE IF score > 70 THEN Medium
    ELSE IF score > 40 THEN Low
    ELSE VeryLow

interpret_score(score) ==
    IF score >= 90 THEN High
    ELSE IF score >= 70 THEN Medium
    ELSE IF score >= 40 THEN Low
    ELSE VeryLow


\* ------------------------------------------------------------------ inputs

MIo == <<"m",".","i","o">>
TCo == <<"t",".","c","o">>
PXyz == <<"p",".","x","y","z">>

\* JSON values: a string, or a value that is not a string.
JStr(s) == [t |-> "str", v |-> s]
JNum == [t |-> "num", v |-> <<>>]

NoBody == [json |-> "none", data |-> <<>>, text |-> <<>>]

\* What requests.get(url, timeout=10) can come back with: a transport error
\* (exception), or a response with a status and a body.  The body of the
\* ".json" source decodes to a list (or fails to decode); the others are text.
TransportError == [error |-> TRUE, status_code |-> 0, body |-> NoBody]
HttpResponse(status, body) == [error |-> FALSE, status_code |-> status, body |-> body]
JsonBody(data) == [json |-> "list", data |-> data, text |-> <<>>]
BadJsonBody == [json |-> "invalid", data |-> <<>>, text |-> <<>>]
TextBody(text) == [json |-> "none", data |-> <<>>, text |-> text]

JsonResponses ==
    { TransportError,
      HttpResponse(404, NoBody),
      HttpResponse(200, BadJsonBody),
      HttpResponse(200, JsonBody(<<>>)),
      HttpResponse(200, JsonBody(<<JStr(<<"M",".","i","o">>)>>)),
      HttpResponse(200, JsonBody(<<JStr(TCo), JNum, JStr(MIo)>>)) }

TextResponses ==
    { TransportError,
      HttpResponse(503, NoBody),
      HttpResponse(200, TextBody(<<>>)),
      HttpResponse(200, TextBody(<<"m",".","i","o","\n">>)),
      HttpResponse(200, TextBody(<<" ","T",".","c","o"," ","\n","\n"," ","\n","m",".","i","o">>)) }

Responses(url) == IF IsJsonUrl(url) THEN JsonResponses ELSE TextResponses

\* The answers the whole-program behaviours draw from: a failure, a clean
\* payload and a payload with something to skip, for each kind of source.
ServedResponses(url) ==
    IF IsJsonUrl(url)
    THEN { TransportError,
           HttpResponse(200, JsonBody(<<JStr(<<"M",".","i","o">>)>>)),
           HttpResponse(200, JsonBody(<<JStr(TCo), JNum, JStr(MIo)>>)) }
    ELSE { TransportError,
           HttpResponse(200, TextBody(<<" ","T",".","c","o"," ","\n","\n"," ","\n","m",".","i","o">>)) }

\* The same, and a list with an empty and a whitespace-padded element.
PaddedList == <<JStr(<<>>), JStr(<<" ","P",".","i","o"," ">>)>>

LoaderResponses(url) ==
    IF IsJsonUrl(url)
    THEN Responses(url) \cup {HttpResponse(200, JsonBody(PaddedList))}
    ELSE Responses(url)

\* ------------------------------------------------------------------- state

VARIABLES
    disposable_domains,  \* the global: a reference to a set object
    heap,                \* the live set objects: reference -> contents
    pc,                  \* position of startup_event, then of the refresh task
    disposable_set,      \* update_disposable_list's local: reference being filled
    urlIdx,              \* update_disposable_list's loop position in the URL list
    updated_set,         \* refresh_disposable_list_loop's local
    ticks,               \* calls of update_disposable_list made so far by the loop
    tasks,               \* refresh tasks created
    inbox,               \* requests received, handler not yet started
    arrived,             \* requests received so far
    th,                  \* validate_email activations: 0 on the event loop, 1.. in the pool
    bulk,                \* the /bulk-validate call awaiting its gather
    doneOrder,           \* pool workers of that call, in completion order
    lastResponse,        \* the latest HTTP response body sent
    mxCache,             \* lru_cache of has_mx_record: entries, least recent first
    queries,             \* DNS MX queries issued, per domain
    returned,            \* values has_mx_record has returned, per domain
    lastFetch,           \* update_disposable_list: the source just handled and its answer
    probe                \* SpecPure: the latest application of a function

vars == << disposable_domains, heap, pc, disposable_set, urlIdx, updated_set,
           ticks, tasks, inbox, arrived, th, bulk, doneOrder, lastResponse,
           mxCache, queries, returned, lastFetch, probe >>

NoRef == 0 - 1

\* `succeeded`: some source handled so far in this call succeeded.
NoFetch == [url |-> 0, response |-> TransportError, succeeded |-> FALSE]

\* ------------------------------------------------- update_disposable_list

\* set.update(map(str.lower, data)): the elements are lowered and added one
\* at a time; an element that is not a str raises, and what was added before
\* it stays in the set.
RECURSIVE UpdateLowered(_, _)
UpdateLowered(acc, data) ==
    IF data = <<>> THEN [set |-> acc, raised |-> FALSE]
    ELSE IF Head(data).t # "str" THEN [set |-> acc, raised |-> TRUE]
    ELSE UpdateLowered(acc \cup {Lower(Head(data).v)}, Tail(data))

\* line.strip().lower() for line in lines if line.strip()
ParseLines(text) ==
    LET lines == SplitLines(text)
    IN  {Lower(Strip(lines[i])) : i \in {j \in 1..Len(lines) : Strip(lines[j]) # <<>>}}

\* A source's failure wipes what the earlier sources gave.
FetchOneResetOnFailure(acc, url, r) ==
    IF r.error THEN {}
    ELSE IF r.status_code # 200 THEN {}
    ELSE IF IsJsonUrl(url)
         THEN IF r.body.json # "list" THEN {}
              ELSE UpdateLowered(acc, r.body.data).set
         ELSE acc \cup ParseLines(r.body.text)

\* One iteration of the for loop: the set after the source `url` answered `r`.
FetchOne(acc, url, r) ==
    IF r.error THEN acc
    ELSE IF r.status_code # 200 THEN acc
    ELSE IF IsJsonUrl(url)
         THEN IF r.body.json # "list" THEN acc
              ELSE UpdateLowered(acc, r.body.data).set
         ELSE acc \cup ParseLines(r.body.text)

\* The source answered 200 and its payload went through the branch for its
\* kind without raising: nothing was caught by the `except` for this source.
SourceSucceeded(url, r) ==
    /\ ~r.error
    /\ r.status_code = 200
    /\ IsJsonUrl(url) => /\ r.body.json = "list"
                         /\ ~UpdateLowered({}, r.body.data).raised

NumUrls == Len(DISPOSABLE_LIST_URLS)

Fetching == pc \in {"load_fetch", "tick_fetch"}

\* The published object cleared and refilled in place.
NewSetInPlace(ref) ==
    /\ disposable_set' = disposable_domains
    /\ heap' = [heap EXCEPT ![disposable_domains] = {}]
    /\ urlIdx' = 1

\* disposable_set = set(): a fresh object, referenced by nothing else.
NewSet(ref) ==
    /\ disposable_set' = ref
    /\ heap' = (ref :> {}) @@ heap
    /\ urlIdx' = 1

\* A reference no live object has (at most three objects are live at a time).
FreshRef == CHOOSE r \in 1..4 : r \notin DOMAIN heap

\* Objects no reference reaches are reclaimed (CPython reference counts).
Reclaim(h, refs) == [r \in (DOMAIN h) \cap refs |-> h[r]]


\* --------------------------------------------------------- validate_email

\* domain = email.split("@")[-1].lower()
DomainOf(email) == Lower(SplitLast(email, "@"))

is_suspicious(email) ==
    LET domain == DomainOf(email)
        tld == SplitLast(domain, ".")
    IN  tld \in suspicious_tlds

\* The set the global refers to at this instant.
Published == heap[disposable_domains]

\* is_disposable without the TLD heuristic.
is_disposable_list_only(email) ==
    LET domain == DomainOf(email)
    IN  domain \in Published

is_disposable(email) ==
    LET domain == DomainOf(email)
    IN  domain \in Published \/ is_suspicious(email)

\* What dns.resolver.resolve(domain, 'MX') can do: answer with n records, or
\* raise (no such domain, no answer in time, a malformed response).
NoDns == [raised |-> "none", n |-> 0]

DnsOutcomes ==
    { [raised |-> "none", n |-> 1],
      [raised |-> "NXDOMAIN", n |-> 0],
      [raised |-> "Timeout", n |-> 0],
      [raised |-> "FormError", n |-> 0] }

\* What a call hands back: a value, or an exception that leaves it.
Returns(v) == [raised |-> FALSE, value |-> v]
Raises == [raised |-> TRUE, value |-> FALSE]

\* has_mx_record without its try/except: what the resolver raises leaves it.
HasMxBodyNoExcept(o) ==
    IF o.raised = "none" THEN Returns(o.n > 0) ELSE Raises

\* has_mx_record with `except dns.resolver.NXDOMAIN` in place of `except Exception`.
HasMxBodyNarrowExcept(o) ==
    IF o.raised = "none" THEN Returns(o.n > 0)
    ELSE IF o.raised = "NXDOMAIN" THEN Returns(FALSE)
    ELSE Raises

\* The body of has_mx_record, given what the resolver did.
HasMxBody(o) ==
    IF o.raised = "none" THEN Returns(o.n > 0)
    ELSE Returns(FALSE)

\* lru_cache(maxsize=...): the entries as a sequence, least recently used first.
CacheKeys(cache) == {cache[i].key : i \in 1..Len(cache)}

CacheIndex(cache, d) == CHOOSE i \in 1..Len(cache) : cache[i].key = d

CacheValue(cache, d) == cache[CacheIndex(cache, d)].value

\* A wrapper that never finds its key.
CacheHitNever(cache, d) == FALSE

CacheHit(cache, d) == d \in CacheKeys(cache)

Without(cache, i) == SubSeq(cache, 1, i - 1) \o SubSeq(cache, i + 1, Len(cache))

\* A hit moves the entry to the most recently used end.
CacheTouch(cache, d) ==
    LET i == CacheIndex(cache, d)
    IN  Without(cache, i) \o <<cache[i]>>

\* A full cache that drops its most recently used entry.
CacheStoreEvictNewest(cache, d, v) ==
    IF d \in CacheKeys(cache) THEN cache
    ELSE IF Len(cache) >= MxCacheSize
         THEN SubSeq(cache, 1, Len(cache) - 1) \o <<[key |-> d, value |-> v]>>
    ELSE cache \o <<[key |-> d, value |-> v]>>

\* A wrapper that overwrites a key another caller stored meanwhile.
CacheStoreOverwrite(cache, d, v) ==
    IF d \in CacheKeys(cache)
    THEN [i \in 1..Len(cache) |->
            IF cache[i].key = d THEN [key |-> d, value |-> v] ELSE cache[i]]
    ELSE IF Len(cache) >= MxCacheSize THEN Tail(cache) \o <<[key |-> d, value |-> v]>>
    ELSE cache \o <<[key |-> d, value |-> v]>>

\* After the wrapped call returned v: a key another caller stored meanwhile is
\* left as it is; a full cache drops its least recently used entry.
CacheStore(cache, d, v) ==
    IF d \in CacheKeys(cache) THEN cache
    ELSE IF Len(cache) >= MxCacheSize THEN Tail(cache) \o <<[key |-> d, value |-> v]>>
    ELSE cache \o <<[key |-> d, value |-> v]>>

\* The MX penalty applied when MX was found.
ScoreOfMxInverted(disposable, mx_found) ==
    (100 - (IF disposable THEN 50 ELSE 0)) - (IF mx_found THEN 30 ELSE 0)

\* score = 100; -50 if disposable; -30 if not mx_found
ScoreOf(disposable, mx_found) ==
    (100 - (IF disposable THEN 50 ELSE 0)) - (IF ~mx_found THEN 30 ELSE 0)

\* The dict validate_email returns; "score" is f"{max(score, 0)} ({interpret_score(score)})".
ValidationResult(email, disposable, mx_found) ==
    LET score == ScoreOf(disposable, mx_found)
    IN  [ email |-> email, valid_format |-> TRUE, disposable |-> disposable,
          mx_found |-> mx_found,
          score |-> [num |-> Max(score, 0), text |-> interpret_score(score)] ]

NoResult ==
    [ email |-> <<>>, valid_format |-> FALSE, disposable |-> FALSE,
      mx_found |-> FALSE, score |-> [num |-> 0, text |-> ""] ]

Idle == [pc |-> "idle", email |-> <<>>, disposable |-> FALSE, dns |-> NoDns,
         result |-> NoResult]


\* ---------------------------------------------------------------- requests

UAtMIo == <<"u","@","m",".","i","o">>
UAtTCo == <<"u","@","T",".","c","o">>
UAtPXyz == <<"u","@","p",".","x","y","z">>

Emails == {UAtMIo, UAtTCo, UAtPXyz}

\* Bodies of POST /bulk-validate: empty, the same domain twice, two domains,
\* and a third domain followed by the first.
BulkInputs ==
    { <<>>, <<UAtMIo, UAtMIo>>, <<UAtMIo, UAtTCo>>, <<UAtPXyz, UAtMIo>> }

Requests ==
    {[kind |-> "single", emails |-> <<e>>] : e \in Emails}
      \cup {[kind |-> "bulk", emails |-> l] : l \in BulkInputs}

\* The requests sent in the behaviours that include startup and refreshes.
StartupRequests ==
    { [kind |-> "single", emails |-> <<UAtPXyz>>],
      [kind |-> "bulk", emails |-> <<UAtTCo, UAtMIo>>] }

\* Pool threads: one per email of the longest bulk body (the default executor
\* has at least five threads, so none of these waits for a free thread).
Workers == 1..(CHOOSE n \in 0..8 : /\ \E l \in BulkInputs : Len(l) = n
                                   /\ \A l \in BulkInputs : Len(l) <= n)

LoopThread == 0

Threads == {LoopThread} \cup Workers

Domains == {DomainOf(e) : e \in Emails}

NoBulk == [active |-> FALSE, emails |-> <<>>]

NoResponse == [kind |-> "none", request |-> <<>>, results |-> <<>>]

\* What the framework answers when an exception leaves the handler.
ErrorResponse(request) == [kind |-> "error", request |-> request, results |-> <<>>]

NoProbe == [fn |-> "none", arg |-> 0, out |-> ""]

\* ------------------------------------------------------------------- Init

\* Module import done (disposable_domains = set(), empty lru_cache), the
\* server is about to run startup_event.
Init ==
    /\ disposable_domains = 0
    /\ heap = (0 :> {})
    /\ pc = "load"
    /\ disposable_set = NoRef
    /\ urlIdx = 0
    /\ updated_set = NoRef
    /\ ticks = 0
    /\ tasks = 0
    /\ inbox = {}
    /\ arrived = 0
    /\ th = [t \in Threads |-> Idle]
    /\ bulk = NoBulk
    /\ doneOrder = <<>>
    /\ lastResponse = NoResponse
    /\ mxCache = <<>>
    /\ queries = [d \in Domains |-> 0]
    /\ returned = [d \in Domains |-> {}]
    /\ lastFetch = NoFetch
    /\ probe = NoProbe

requestVars == << inbox, arrived, th, bulk, doneOrder, lastResponse,
                  mxCache, queries, returned >>

refreshVars == << disposable_domains, heap, pc, disposable_set, urlIdx,
                  updated_set, ticks, tasks, lastFetch >>

\* ------------------------------------------- startup and the refresh loop

\* startup_event -> load_disposable_domains -> update_disposable_list begins.
StartupLoad ==
    /\ pc = "load"
    /\ pc' = "load_fetch"
    /\ NewSet(1)
    /\ UNCHANGED << disposable_domains, updated_set, ticks, tasks, lastFetch, probe >>
    /\ UNCHANGED requestVars

\* One iteration of `for url in DISPOSABLE_LIST_URLS`, in either caller.  The
\* source answers with one of LoaderResponses when `every`, else with one of
\* the fewer ServedResponses.
FetchUrl(every) ==
    /\ Fetching
    /\ urlIdx <= NumUrls
    /\ \E r \in (IF every THEN LoaderResponses(DISPOSABLE_LIST_URLS[urlIdx])
                         ELSE ServedResponses(DISPOSABLE_LIST_URLS[urlIdx])) :
         /\ heap' = [heap EXCEPT ![disposable_set] =
                        FetchOne(@, DISPOSABLE_LIST_URLS[urlIdx], r)]
         /\ lastFetch' = [url |-> urlIdx, response |-> r,
                          succeeded |-> \/ lastFetch.succeeded
                                        \/ SourceSucceeded(DISPOSABLE_LIST_URLS[urlIdx], r)]
    /\ urlIdx' = urlIdx + 1
    /\ UNCHANGED << disposable_domains, pc, disposable_set, updated_set, ticks,
                    tasks, probe >>
    /\ UNCHANGED requestVars

\* update_disposable_list returns to load_disposable_domains, which publishes
\* the result whatever it holds.
LoadReturn ==
    /\ pc = "load_fetch"
    /\ urlIdx > NumUrls
    /\ disposable_domains' = disposable_set
    /\ heap' = Reclaim(heap, {disposable_set})
    /\ disposable_set' = NoRef
    /\ urlIdx' = 0
    /\ pc' = "create_task"
    /\ lastFetch' = NoFetch
    /\ UNCHANGED << updated_set, ticks, tasks, probe >>
    /\ UNCHANGED requestVars

\* A refresh task whose loop sleeps before it fetches.
CreateTaskSleepFirst ==
    /\ pc = "create_task"
    /\ tasks' = tasks + 1
    /\ pc' = "sleep"
    /\ UNCHANGED << disposable_domains, heap, disposable_set, urlIdx,
                    updated_set, ticks, lastFetch, probe >>
    /\ UNCHANGED requestVars

\* asyncio.create_task(refresh_disposable_list_loop()); startup_event returns.
CreateTask ==
    /\ pc = "create_task"
    /\ tasks' = tasks + 1
    /\ pc' = "ready"
    /\ UNCHANGED << disposable_domains, heap, disposable_set, urlIdx,
                    updated_set, ticks, lastFetch, probe >>
    /\ UNCHANGED requestVars

\* The event loop thread runs one coroutine at a time, up to its next await.
LoopFree == pc \in {"ready", "sleep"} /\ th[LoopThread].pc = "idle"

\* The task is scheduled: top of `while True`, update_disposable_list begins.
\* With `endless` the tick counter stops counting at MaxTicks instead of
\* stopping the loop, and the new object takes a free reference.
TickStart(endless) ==
    /\ pc = "ready"
    /\ LoopFree
    /\ endless \/ ticks < MaxTicks
    /\ ticks' = IF ticks < MaxTicks THEN ticks + 1 ELSE ticks
    /\ pc' = "tick_fetch"
    /\ NewSet(IF endless THEN FreshRef ELSE ticks + 2)
    /\ UNCHANGED << disposable_domains, updated_set, tasks, lastFetch, probe >>
    /\ UNCHANGED requestVars

\* update_disposable_list raising when it has nothing to return: the
\* exception leaves the coroutine and the task is over.
TickReturnRaiseOnEmpty ==
    /\ pc = "tick_fetch"
    /\ urlIdx > NumUrls
    /\ updated_set' = IF heap[disposable_set] = {} THEN updated_set ELSE disposable_set
    /\ heap' = Reclaim(heap, {disposable_domains, disposable_set})
    /\ disposable_set' = NoRef
    /\ urlIdx' = 0
    /\ pc' = IF heap[disposable_set] = {} THEN "failed" ELSE "check"
    /\ lastFetch' = NoFetch
    /\ UNCHANGED << disposable_domains, ticks, tasks, probe >>
    /\ UNCHANGED requestVars

\* updated_set = update_disposable_list()
TickReturn ==
    /\ pc = "tick_fetch"
    /\ urlIdx > NumUrls
    /\ updated_set' = disposable_set
    /\ heap' = Reclaim(heap, {disposable_domains, disposable_set})
    /\ disposable_set' = NoRef
    /\ urlIdx' = 0
    /\ pc' = "check"
    /\ lastFetch' = NoFetch
    /\ UNCHANGED << disposable_domains, ticks, tasks, probe >>
    /\ UNCHANGED requestVars

\* The assignment made without the `if updated_set` test.
TickCheckAlways ==
    /\ pc = "check"
    /\ disposable_domains' = updated_set
    /\ heap' = Reclaim(heap, {updated_set})
    /\ pc' = "sleep"
    /\ UNCHANGED << disposable_set, urlIdx, updated_set, ticks, tasks, lastFetch, probe >>
    /\ UNCHANGED requestVars

\* The fetched domains added to the published object (disposable_domains |= updated_set).
TickCheckMerge ==
    /\ pc = "check"
    /\ heap' = [heap EXCEPT ![disposable_domains] = @ \cup heap[updated_set]]
    /\ pc' = "sleep"
    /\ UNCHANGED << disposable_domains, disposable_set, urlIdx, updated_set,
                    ticks, tasks, lastFetch, probe >>
    /\ UNCHANGED requestVars

\* if updated_set: disposable_domains = updated_set
\* then await asyncio.sleep(UPDATE_INTERVAL_SECONDS)
TickCheck ==
    /\ pc = "check"
    /\ IF heap[updated_set] # {}
       THEN /\ disposable_domains' = updated_set
            /\ heap' = Reclaim(heap, {updated_set})
       ELSE UNCHANGED << disposable_domains, heap >>
    /\ pc' = "sleep"
    /\ UNCHANGED << disposable_set, urlIdx, updated_set, ticks, tasks, lastFetch, probe >>
    /\ UNCHANGED requestVars

\* The sleep's timer expires; the task becomes runnable again.
WakeUp ==
    /\ pc = "sleep"
    /\ pc' = "ready"
    /\ UNCHANGED << disposable_domains, heap, disposable_set, urlIdx,
                    updated_set, ticks, tasks, lastFetch, probe >>
    /\ UNCHANGED requestVars


\* ---------------------------------------------------------------- handlers

\* A client sends a request; it waits for the event loop to start its handler.
Arrive(req, limit) ==
    /\ arrived < limit
    /\ arrived' = arrived + 1
    /\ inbox' = inbox \cup {req}
    /\ UNCHANGED << th, bulk, doneOrder, lastResponse, mxCache, queries, returned, probe >>
    /\ UNCHANGED refreshVars

Begin(email) == [pc |-> "is_disposable", email |-> email, disposable |-> FALSE,
                 dns |-> NoDns, result |-> NoResult]

\* POST /validate: validate_email runs on the event loop thread itself.
HandleSingle(req) ==
    /\ req \in inbox
    /\ req.kind = "single"
    /\ LoopFree
    /\ inbox' = inbox \ {req}
    /\ th' = [th EXCEPT ![LoopThread] = Begin(req.emails[1])]
    /\ UNCHANGED << arrived, bulk, doneOrder, lastResponse, mxCache, queries, returned, probe >>
    /\ UNCHANGED refreshVars

\* validate_email returned on the event loop thread: the response is sent.
SingleReturn ==
    /\ th[LoopThread].pc \in {"done", "raised"}
    /\ lastResponse' = IF th[LoopThread].pc = "raised"
                       THEN ErrorResponse(<<th[LoopThread].email>>)
                       ELSE [kind |-> "single", request |-> <<th[LoopThread].email>>,
                             results |-> <<th[LoopThread].result>>]
    /\ th' = [th EXCEPT ![LoopThread] = Idle]
    /\ UNCHANGED << inbox, arrived, bulk, doneOrder, mxCache, queries, returned, probe >>
    /\ UNCHANGED refreshVars

\* POST /bulk-validate: one run_in_executor per email, then await gather.
HandleBulk(req) ==
    /\ req \in inbox
    /\ req.kind = "bulk"
    /\ LoopFree
    /\ ~bulk.active
    /\ inbox' = inbox \ {req}
    /\ bulk' = [active |-> TRUE, emails |-> req.emails]
    /\ doneOrder' = <<>>
    /\ th' = [t \in Threads |->
                IF t \in 1..Len(req.emails) THEN Begin(req.emails[t]) ELSE th[t]]
    /\ UNCHANGED << arrived, lastResponse, mxCache, queries, returned, probe >>
    /\ UNCHANGED refreshVars

\* The results collected as the workers complete.
GatherByCompletion(n) == [i \in 1..n |-> th[doneOrder[i]].result]

\* asyncio.gather: the i-th result is the i-th awaitable's.
Gather(n) == [i \in 1..n |-> th[i].result]

\* Every future is done; the handler resumes on the event loop and responds.
BulkReturn ==
    /\ bulk.active
    /\ LoopFree
    /\ \A t \in 1..Len(bulk.emails) : th[t].pc \in {"done", "raised"}
    /\ lastResponse' = IF \E t \in 1..Len(bulk.emails) : th[t].pc = "raised"
                       THEN ErrorResponse(bulk.emails)
                       ELSE [kind |-> "bulk", request |-> bulk.emails,
                             results |-> Gather(Len(bulk.emails))]
    /\ th' = [t \in Threads |-> IF t \in Workers THEN Idle ELSE th[t]]
    /\ bulk' = NoBulk
    /\ UNCHANGED << inbox, arrived, doneOrder, mxCache, queries, returned, probe >>
    /\ UNCHANGED refreshVars

\* ------------------------------------------------- steps of validate_email

\* disposable = is_disposable(email)
IsDisposableStep(t) ==
    /\ th[t].pc = "is_disposable"
    /\ th' = [th EXCEPT ![t].disposable = is_disposable(th[t].email),
                        ![t].pc = "has_mx"]
    /\ UNCHANGED << inbox, arrived, bulk, doneOrder, lastResponse, mxCache,
                    queries, returned, probe >>
    /\ UNCHANGED refreshVars

\* has_mx_record returned mx_found to validate_email, which builds its dict.
Finish(t, mx_found) ==
    /\ th' = [th EXCEPT ![t].pc = "done",
                        ![t].dns = NoDns,
                        ![t].result = ValidationResult(th[t].email, th[t].disposable, mx_found)]
    /\ returned' = [returned EXCEPT ![DomainOf(th[t].email)] = @ \cup {mx_found}]
    /\ doneOrder' = IF t \in Workers THEN Append(doneOrder, t) ELSE doneOrder

\* mx_found = has_mx_record(domain): the lru_cache wrapper looks the key up.
\* A hit returns the stored value; a miss calls the function, whose DNS query
\* goes out.
MxLookup(t) ==
    /\ th[t].pc = "has_mx"
    /\ LET d == DomainOf(th[t].email)
       IN  IF CacheHit(mxCache, d)
           THEN /\ mxCache' = CacheTouch(mxCache, d)
                /\ Finish(t, CacheValue(mxCache, d))
                /\ UNCHANGED queries
           ELSE /\ th' = [th EXCEPT ![t].pc = "resolve"]
                /\ queries' = [queries EXCEPT ![d] = @ + 1]
                /\ UNCHANGED << mxCache, returned, doneOrder >>
    /\ UNCHANGED << inbox, arrived, bulk, lastResponse, probe >>
    /\ UNCHANGED refreshVars

\* dns.resolver.resolve comes back: with an answer, or by raising.
DnsAnswer(t) ==
    /\ th[t].pc = "resolve"
    /\ \E o \in DnsOutcomes : th' = [th EXCEPT ![t].pc = "resolved", ![t].dns = o]
    /\ UNCHANGED << inbox, arrived, bulk, doneOrder, lastResponse, mxCache,
                    queries, returned, probe >>
    /\ UNCHANGED refreshVars

\* The rest of has_mx_record and of the lru_cache wrapper: a returned value is
\* stored and handed to validate_email; an exception would leave both.
MxStore(t) ==
    /\ th[t].pc = "resolved"
    /\ LET r == HasMxBody(th[t].dns)
       IN  IF r.raised
           THEN /\ th' = [th EXCEPT ![t].pc = "raised", ![t].dns = NoDns]
                /\ UNCHANGED << mxCache, returned, doneOrder >>
           ELSE /\ mxCache' = CacheStore(mxCache, DomainOf(th[t].email), r.value)
                /\ Finish(t, r.value)
    /\ UNCHANGED << inbox, arrived, bulk, lastResponse, queries, probe >>
    /\ UNCHANGED refreshVars

\* ------------------------------------------------------------ the program

Next ==
    \/ StartupLoad
    \/ FetchUrl(FALSE)
    \/ LoadReturn
    \/ CreateTask
    \/ TickStart(FALSE)
    \/ TickReturn
    \/ TickCheck
    \/ WakeUp
    \/ \E req \in StartupRequests : Arrive(req, MaxStartupRequests)
    \/ \E req \in inbox : HandleSingle(req)
    \/ SingleReturn
    \/ \E req \in inbox : HandleBulk(req)
    \/ BulkReturn
    \/ \E t \in Threads : IsDisposableStep(t)
    \/ \E t \in Threads : MxLookup(t)
    \/ \E t \in Threads : DnsAnswer(t)
    \/ \E t \in Threads : MxStore(t)

Spec == Init /\ [][Next]_vars


\* ------------------------------------- one refresh interval of the server

\* States the server is in once startup and the first tick are over and the
\* refresh task sleeps: the first tick published its result S when S is not
\* empty, and left the (here also empty) startup set in place otherwise.
ServingSets == { {}, {MIo}, {MIo, TCo} }

InitServing ==
    /\ \E S \in ServingSets :
         IF S # {}
         THEN disposable_domains = 2 /\ heap = (2 :> S)
         ELSE disposable_domains = 1 /\ heap = (1 :> {}) @@ (2 :> {})
    /\ pc = "sleep"
    /\ disposable_set = NoRef
    /\ urlIdx = 0
    /\ updated_set = 2
    /\ ticks = 1
    /\ tasks = 1
    /\ inbox = {}
    /\ arrived = 0
    /\ th = [t \in Threads |-> Idle]
    /\ bulk = NoBulk
    /\ doneOrder = <<>>
    /\ lastResponse = NoResponse
    /\ mxCache = <<>>
    /\ queries = [d \in Domains |-> 0]
    /\ returned = [d \in Domains |-> {}]
    /\ lastFetch = NoFetch
    /\ probe = NoProbe

\* The requests handled while the refresh task sleeps (12 hours).
NextServing ==
    \/ \E req \in Requests : Arrive(req, MaxRequests)
    \/ \E req \in inbox : HandleSingle(req)
    \/ SingleReturn
    \/ \E req \in inbox : HandleBulk(req)
    \/ BulkReturn
    \/ \E t \in Threads : IsDisposableStep(t)
    \/ \E t \in Threads : MxLookup(t)
    \/ \E t \in Threads : DnsAnswer(t)
    \/ \E t \in Threads : MxStore(t)

SpecServing == InitServing /\ [][NextServing]_vars


\* ------------------------------------- startup and refresh on their own

\* The startup load and the refresh task with no request in the way, over
\* every answer the sources give.
NextRefresh ==
    \/ StartupLoad
    \/ FetchUrl(TRUE)
    \/ LoadReturn
    \/ CreateTask
    \/ TickStart(FALSE)
    \/ TickReturn
    \/ TickCheck
    \/ WakeUp

SpecRefresh == Init /\ [][NextRefresh]_vars


\* ------------------------------------------- the refresh task without end

\* The same with no bound on the number of ticks.  The steps are taken by one
\* thread, the event loop running the task: a step that can be taken is
\* taken, since requests.get has timeout=10, and the timer of asyncio.sleep
\* expires after UPDATE_INTERVAL_SECONDS.
NextLive ==
    \/ StartupLoad
    \/ FetchUrl(TRUE)
    \/ LoadReturn
    \/ CreateTask
    \/ TickStart(TRUE)
    \/ TickReturn
    \/ TickCheck
    \/ WakeUp

SpecLive == Init /\ [][NextLive]_vars /\ WF_vars(NextLive)


\* ------------------------------------------------- the scorer on its own

ProbeScores == (0 - ProbePad)..(100 + ProbePad)

\* interpret_score applied to a score.
ApplyInterpretScore(score) ==
    /\ probe' = [fn |-> "interpret_score", arg |-> score, out |-> interpret_score(score)]
    /\ UNCHANGED << inbox, arrived, th, bulk, doneOrder, lastResponse, mxCache,
                    queries, returned >>
    /\ UNCHANGED refreshVars

NextPure == \E score \in ProbeScores : ApplyInterpretScore(score)

SpecPure == InitServing /\ [][NextPure]_vars


\* ================================================================== claims

\* The memo as a set of <<domain, value>> pairs.
Memo(cache) == {<<cache[i].key, cache[i].value>> : i \in 1..Len(cache)}

MemoKeys(cache) == {cache[i].key : i \in 1..Len(cache)}

\* The domain and the TLD of each email the clients send, written out.
ClaimDomain == (UAtMIo :> MIo) @@ (UAtTCo :> TCo) @@ (UAtPXyz :> PXyz)

ClaimTld == (UAtMIo :> <<"i","o">>) @@ (UAtTCo :> <<"c","o">>) @@ (UAtPXyz :> <<"x","y","z">>)

\* The tier boundaries as the specification lists them.
ClaimTier(score) ==
    CASE score >= 90 -> High
      [] score \in 70..89 -> Medium
      [] score \in 40..69 -> Low
      [] score < 40 -> VeryLow

\* The score table as the specification lists it.
ClaimScore(disposable, mx_found) ==
    CASE disposable /\ mx_found -> 50
      [] ~disposable /\ ~mx_found -> 70
      [] disposable /\ ~mx_found -> 20
      [] ~disposable /\ mx_found -> 100

\* Every validation result in sight: finished activations and the latest response.
ResultsSeen ==
    {th[t].result : t \in {u \in Threads : th[u].pc = "done"}}
      \cup {lastResponse.results[i] : i \in 1..Len(lastResponse.results)}

\* C1: a refresh tick whose fetch yields zero domains leaves the published set
\* as it was before the tick: nothing is published while the tick fetches, and
\* the test of an empty result publishes nothing either.
C1_EmptyFetchKeepsPublished ==
    [][ (pc = "tick_fetch" \/ (pc = "check" /\ heap[updated_set] = {}))
          => /\ disposable_domains' = disposable_domains
             /\ heap'[disposable_domains'] = heap[disposable_domains] ]_vars

\* C1 witness: the first tick published its result, the second fetched nothing
\* and is over; the first tick's set is still the published one.
C1_Witness ==
    /\ pc = "sleep"
    /\ ticks = 2
    /\ updated_set = 3
    /\ heap[updated_set] = {}
    /\ disposable_domains = 2
    /\ Published # {}

\* C2 (as claimed): a request that is waiting while a refresh fetch is in
\* flight can have its handler started, without the fetch finishing first.
C2_RequestNeverWaitsOnFetch ==
    \A r \in inbox :
        (pc = "tick_fetch" /\ (r.kind = "bulk" => ~bulk.active))
            => ENABLED (HandleSingle(r) \/ HandleBulk(r))

\* C3: a bulk response has one result per input email, and the i-th result is
\* the i-th email's, whatever order the workers completed in.
C3_BulkResultsInInputOrder ==
    lastResponse.kind = "bulk"
        => /\ Len(lastResponse.results) = Len(lastResponse.request)
           /\ \A i \in 1..Len(lastResponse.request) :
                  lastResponse.results[i].email = lastResponse.request[i]

\* C3 witness: a bulk response for two different emails whose second worker
\* completed before the first.
C3_Witness ==
    /\ lastResponse.kind = "bulk"
    /\ lastResponse.request = <<UAtMIo, UAtTCo>>
    /\ ~bulk.active
    /\ doneOrder = <<2, 1>>

\* C4: the set being filled is never the published object; a published object
\* is never changed in place; the global changes only to an object whose fetch
\* is complete; and a membership read made while a tick fetches is evaluated
\* against the whole published set.
C4_NoTornSet ==
    /\ [](Fetching => /\ disposable_set # disposable_domains
                      /\ disposable_set \in DOMAIN heap
                      /\ disposable_domains \in DOMAIN heap)
    /\ [][ /\ disposable_domains' = disposable_domains
                => heap'[disposable_domains] = heap[disposable_domains]
           /\ disposable_domains' # disposable_domains
                => /\ pc = "check" \/ (pc = "load_fetch" /\ urlIdx > NumUrls)
                   /\ heap'[disposable_domains'] = heap[disposable_domains']
                   /\ disposable_set' # disposable_domains'
           /\ \A t \in Threads :
                (pc = "tick_fetch" /\ th[t].pc = "is_disposable" /\ th'[t].pc = "has_mx")
                    => th'[t].disposable =
                          (ClaimDomain[th[t].email] \in heap[disposable_domains]
                             \/ ClaimTld[th[t].email] \in suspicious_tlds) ]_vars

\* C4 witness: a tick has fetched two sources and its half-built set holds
\* t.co, which the published set lacks; a pool worker has read "not disposable"
\* for u@T.co.
C4_Witness ==
    /\ pc = "tick_fetch"
    /\ urlIdx = 3
    /\ TCo \in heap[disposable_set]
    /\ TCo \notin Published
    /\ \E t \in Workers :
         /\ th[t].pc = "has_mx"
         /\ th[t].email = UAtTCo
         /\ ~th[t].disposable

\* C5 (as claimed): at most one DNS MX query is ever issued per domain.
C5_AtMostOneQueryPerDomain == \A d \in Domains : queries[d] <= 1

\* C5 (amended): a DNS MX query for d is issued only by a call that finds d
\* absent from the memo, one query per such call; a call that finds d in the
\* memo issues none.
C5_QueryOnlyOnMiss ==
    [][ \A d \in Domains :
          queries'[d] # queries[d]
            => /\ d \notin MemoKeys(mxCache)
               /\ queries'[d] = queries[d] + 1 ]_vars

\* C5 witness: a bulk call for the same domain twice is answered after a
\* single query for it.
C5_Witness ==
    /\ lastResponse.kind = "bulk"
    /\ lastResponse.request = <<UAtMIo, UAtMIo>>
    /\ queries[MIo] = 1

\* C6 (as claimed): has_mx_record never returns two different values for one
\* domain.
C6_OneValuePerDomain == \A d \in Domains : Cardinality(returned[d]) <= 1

\* C6 (amended): while d's entry stays in the memo its value does not change,
\* and every call that finds the entry returns that value.
C6_StableWhileCached ==
    [][ \A d \in Domains : \A v \in BOOLEAN :
          <<d, v>> \in Memo(mxCache)
            => /\ d \in MemoKeys(mxCache') => <<d, v>> \in Memo(mxCache')
               /\ \A t \in Threads :
                    (th[t].pc = "has_mx" /\ ClaimDomain[th[t].email] = d /\ th'[t] # th[t])
                        => /\ th'[t].pc = "done"
                           /\ th'[t].result.mx_found = v ]_vars

\* C6 witness: m.io was looked up by a bulk call (after p.xyz) and by a single
\* call, queried once, and both calls returned the same value.
C6_Witness ==
    /\ lastResponse.kind = "bulk"
    /\ lastResponse.request = <<UAtPXyz, UAtMIo>>
    /\ th[LoopThread].pc = "done"
    /\ th[LoopThread].email = UAtMIo
    /\ queries[MIo] = 1
    /\ queries[PXyz] = 1
    /\ lastResponse.results[2].mx_found
    /\ th[LoopThread].result.mx_found

\* C7: every validation result carries the score of the table (50, 70, 20,
\* 100), a number in 0..100, and the tier text of that number.
C7_ScoreTable ==
    \A r \in ResultsSeen :
        /\ r.score.num = ClaimScore(r.disposable, r.mx_found)
        /\ r.score.num \in 0..100
        /\ r.score.text = ClaimTier(r.score.num)

\* C7 witness: a bulk response with a disposable email without MX (20) and a
\* listed-nowhere email with MX (100).
C7_Witness ==
    /\ lastResponse.kind = "bulk"
    /\ Len(lastResponse.results) = 2
    /\ lastResponse.results[1].disposable
    /\ ~lastResponse.results[1].mx_found
    /\ lastResponse.results[1].score.num = 20
    /\ ~lastResponse.results[2].disposable
    /\ lastResponse.results[2].mx_found
    /\ lastResponse.results[2].score.num = 100

\* C8: interpret_score gives High from 90 up, Medium for 70..89, Low for
\* 40..69 and Very low below 40.
C8_TierBoundaries ==
    probe.fn = "interpret_score" => probe.out = ClaimTier(probe.arg)

\* C8 witness: 89 was mapped, to Medium.
C8_Witness ==
    /\ probe.fn = "interpret_score"
    /\ probe.arg = 89
    /\ probe.out = Medium

\* C9: the disposable flag a validation computes is true exactly when the
\* lowercased domain is in the set published at that moment or its TLD is a
\* suspicious one.
C9_DisposableFlag ==
    [][ \A t \in Threads :
          (th[t].pc = "is_disposable" /\ th'[t].pc # "is_disposable")
            => th'[t].disposable =
                  (ClaimDomain[th[t].email] \in heap[disposable_domains]
                     \/ ClaimTld[th[t].email] \in suspicious_tlds) ]_vars

\* C9 witness: u@p.xyz was flagged disposable while the published set is empty.
C9_Witness ==
    /\ th[LoopThread].pc = "has_mx"
    /\ th[LoopThread].email = UAtPXyz
    /\ th[LoopThread].disposable
    /\ Published = {}

\* C10: a resolution that raised makes has_mx_record return false (no error
\* leaves it) and, unless the domain was stored meanwhile, stores false; a
\* call that finds false stored returns false and issues no query.
C10_FailureIsMemoizedFalse ==
    [][ \A t \in Threads :
          /\ (th[t].pc = "resolved" /\ th'[t] # th[t] /\ th[t].dns.raised # "none")
                => /\ th'[t].pc = "done"
                   /\ ~th'[t].result.mx_found
                   /\ ClaimDomain[th[t].email] \notin MemoKeys(mxCache)
                        => <<ClaimDomain[th[t].email], FALSE>> \in Memo(mxCache')
          /\ (th[t].pc = "has_mx" /\ th'[t] # th[t]
                /\ <<ClaimDomain[th[t].email], FALSE>> \in Memo(mxCache))
                => /\ th'[t].pc = "done"
                   /\ ~th'[t].result.mx_found
                   /\ queries' = queries ]_vars

\* C10 witness: a bulk call for the same domain twice got "no MX" twice from
\* one query whose resolution failed.
C10_Witness ==
    /\ lastResponse.kind = "bulk"
    /\ lastResponse.request = <<UAtMIo, UAtMIo>>
    /\ ~lastResponse.results[1].mx_found
    /\ ~lastResponse.results[2].mx_found
    /\ queries[MIo] = 1
    /\ <<MIo, FALSE>> \in Memo(mxCache)

\* Whether r is a ValidationResult for email, as validate_email builds them.
ClaimIsResultFor(r, email) ==
    /\ r.email = email
    /\ r.valid_format
    /\ r.disposable \in BOOLEAN
    /\ r.mx_found \in BOOLEAN
    /\ r.score.num \in 0..100

\* C11: no exception leaves validate_email, so no worker of a bulk call fails,
\* no response is an error response, and every bulk response carries one
\* ValidationResult for every input email.
C11_BulkNeverFails ==
    /\ \A t \in Threads : th[t].pc # "raised"
    /\ lastResponse.kind # "error"
    /\ lastResponse.kind = "bulk"
         => /\ Len(lastResponse.results) = Len(lastResponse.request)
            /\ \A i \in 1..Len(lastResponse.request) :
                   ClaimIsResultFor(lastResponse.results[i], lastResponse.request[i])

\* C11 witness: a bulk response for two emails where the resolution for the
\* first one failed (no MX reported) and the second one's succeeded.
C11_Witness ==
    /\ lastResponse.kind = "bulk"
    /\ lastResponse.request = <<UAtMIo, UAtTCo>>
    /\ Len(lastResponse.results) = 2
    /\ ~lastResponse.results[1].mx_found
    /\ lastResponse.results[2].mx_found

\* The source's answer is a transport error or a status other than 200.
ClaimSourceFailed(r) == r.error \/ r.status_code # 200

\* C12 (as claimed): a call of update_disposable_list in which some source
\* succeeded does not return the empty set.
C12_EmptyOnlyIfEverySourceFailed ==
    (Fetching /\ urlIdx > NumUrls /\ lastFetch.succeeded)
        => heap[disposable_set] # {}

\* C12 (amended): every source is handled in turn whatever the earlier ones
\* did; a source that failed leaves the set as it was, any other adds what it
\* holds to what the earlier ones gave; so the call returns the union of the
\* sources' domains, which is empty exactly when no source gave a domain.
C12_SourcesIndependent ==
    /\ [](Fetching /\ urlIdx > NumUrls => lastFetch.url = NumUrls)
    /\ [](Fetching /\ urlIdx = 1 => heap[disposable_set] = {})
    /\ [][ (Fetching /\ urlIdx' = urlIdx + 1)
            => /\ lastFetch'.url = urlIdx
               /\ heap[disposable_set] \subseteq heap'[disposable_set]
               /\ ClaimSourceFailed(lastFetch'.response)
                     => heap'[disposable_set] = heap[disposable_set]
               /\ heap'[disposable_set] = heap[disposable_set] \cup
                     FetchOne({}, DISPOSABLE_LIST_URLS[urlIdx], lastFetch'.response) ]_vars

\* C12 witness: the call is about to return both domains the first two
\* sources gave, the third source having failed with a transport error.
C12_Witness ==
    /\ Fetching
    /\ urlIdx > NumUrls
    /\ lastFetch.url = NumUrls
    /\ lastFetch.response.error
    /\ heap[disposable_set] = {MIo, TCo}

\* The payload of a 200 answer cannot be parsed by the branch for its source:
\* the body is not JSON, or a list element is not a string.
ClaimUnparsable(url, r) ==
    /\ ~r.error
    /\ r.status_code = 200
    /\ IsJsonUrl(url)
    /\ \/ r.body.json # "list"
       \/ \E i \in 1..Len(r.body.data) : r.body.data[i].t # "str"

\* C13 (as claimed): a source whose payload cannot be parsed adds nothing to
\* the set update_disposable_list is building, the elements before the
\* failing one included.
C13_UnparsableContributesNothing ==
    [][ (Fetching /\ urlIdx' = urlIdx + 1
           /\ ClaimUnparsable(DISPOSABLE_LIST_URLS[urlIdx], lastFetch'.response))
        => heap'[disposable_set] = heap[disposable_set] ]_vars

\* C14 (as claimed): every string of the published set is non-empty, is in
\* lower case and has no leading or trailing whitespace.
C14_PublishedNormalised ==
    \A d \in Published :
        /\ d # <<>>
        /\ Lower(d) = d
        /\ Strip(d) = d

\* C15: once startup has published, the published set is empty only while it
\* is still the object the startup load returned (the load fetched nothing
\* and no tick has replaced it); and no step takes the published set from
\* non-empty to empty.
C15_EmptyOnlyFromStartup ==
    /\ []( (pc \notin {"load", "load_fetch"} /\ Published = {})
             => disposable_domains = 1 )
    /\ [][ Published # {} => heap'[disposable_domains'] # {} ]_vars

\* C15 witness: after the second tick, whose fetch came back empty, the set
\* the startup load published is still published and is not empty.
C15_Witness ==
    /\ pc = "sleep"
    /\ ticks = 2
    /\ updated_set = 3
    /\ heap[updated_set] = {}
    /\ disposable_domains = 1
    /\ Published # {}

\* The memo after the entry at position i was used: it is the most recent,
\* the others keep their order.
ClaimUsed(cache, i) ==
    [j \in 1..Len(cache) |->
        IF j < i THEN cache[j] ELSE IF j < Len(cache) THEN cache[j + 1] ELSE cache[i]]

\* C16: the memo never holds more than its capacity, nor a domain twice.  Its
\* entries stay ordered by last use: a call that finds its domain moves that
\* entry to the most recent end, a call that did not find it inserts it at
\* the most recent end (or leaves the memo alone when a concurrent call has
\* inserted it meanwhile).
\* An insertion into a full memo removes the least recently used entry alone;
\* nothing else ever removes an entry.
C16_MemoBoundedLru ==
    /\ [](Len(mxCache) <= MxCacheSize)
    /\ [](Cardinality(MemoKeys(mxCache)) = Len(mxCache))
    /\ [][ mxCache' # mxCache
            => \/ \E i \in 1..Len(mxCache) : mxCache' = ClaimUsed(mxCache, i)
               \/ \E d \in Domains \ MemoKeys(mxCache) : \E v \in BOOLEAN :
                     mxCache' = (IF Len(mxCache) = MxCacheSize
                                 THEN SubSeq(mxCache, 2, Len(mxCache))
                                 ELSE mxCache) \o <<[key |-> d, value |-> v]>> ]_vars
    /\ [][ \A t \in Threads :
              (th[t].pc \in {"has_mx", "resolved"} /\ th'[t].pc = "done")
                => IF th[t].pc = "resolved" /\ ClaimDomain[th[t].email] \in MemoKeys(mxCache)
                   THEN mxCache' = mxCache
                   ELSE mxCache'[Len(mxCache')].key = ClaimDomain[th[t].email] ]_vars

\* C16 witness: the memo is full, no resolution is in flight, and m.io, whose
\* lookup returned earlier, is no longer in it: it was evicted.
C16_Witness ==
    /\ Len(mxCache) = MxCacheSize
    /\ returned[MIo] # {}
    /\ MIo \notin MemoKeys(mxCache)
    /\ \A t \in Threads : th[t].pc \notin {"resolve", "resolved"}

\* C17: the step after a tick's fetch came back non-empty makes the fetched
\* object the published one, holding exactly what was fetched, and
\* is_disposable reads it from then on: a domain of the earlier set that the
\* fetch did not find is no longer contained.
C17_NonEmptyFetchReplaces ==
    [][ (pc = "check" /\ heap[updated_set] # {})
        => /\ disposable_domains' = updated_set
           /\ heap'[disposable_domains'] = heap[updated_set]
           /\ \A d \in Published \ heap[updated_set] :
                  d \notin heap'[disposable_domains']
           /\ \A e \in Emails :
                  is_disposable(e)' = \/ ClaimDomain[e] \in heap[updated_set]
                                      \/ ClaimTld[e] \in suspicious_tlds ]_vars

\* C17 witness: m.io and t.co are published and a tick has fetched m.io
\* alone; the tick is about to publish.
C17_Witness ==
    /\ pc = "check"
    /\ Published = {MIo, TCo}
    /\ heap[updated_set] = {MIo}

\* C18: the refresh task begins a fetch again and again, for ever; in
\* particular a tick in which every source failed (its result is empty) is
\* followed by another tick.
C18_RefreshNeverStops ==
    /\ []<>(pc = "tick_fetch" /\ urlIdx = 1)
    /\ (pc = "check" /\ heap[updated_set] = {}) ~> (pc = "tick_fetch" /\ urlIdx = 1)

\* C18 witness: a tick beyond the counted ones begins its fetch, the tick
\* before it having fetched nothing.
C18_Witness ==
    /\ pc = "tick_fetch"
    /\ urlIdx = 1
    /\ ticks = MaxTicks
    /\ updated_set \in DOMAIN heap
    /\ heap[updated_set] = {}
    /\ Published = {}

\* Startup is not over: the load or the creation of the task is still to come.
ClaimStartingUp == pc \in {"load", "load_fetch", "create_task"}

\* Some request is being handled or has been answered.
ClaimHandling ==
    \/ \E t \in Threads : th[t].pc # "idle"
    \/ bulk.active
    \/ lastResponse # NoResponse

\* C19: the startup load publishes the object it fetched, empty or not,
\* before the refresh task is created; no request is handled before startup
\* is over; one refresh task is created and no other; and the task sleeps
\* only after a fetch, its first tick starting without a sleep before it.
C19_StartupOrdering ==
    /\ [][ (pc = "load_fetch" /\ pc' # "load_fetch")
            => /\ disposable_domains' = disposable_set
               /\ heap'[disposable_domains'] = heap[disposable_set]
               /\ pc' = "create_task"
               /\ tasks' = 0 ]_vars
    /\ [][ tasks' # tasks
            => /\ tasks = 0 /\ tasks' = 1
               /\ disposable_domains = 1
               /\ pc' = "ready" ]_vars
    /\ [](tasks = (IF ClaimStartingUp THEN 0 ELSE 1))
    /\ [](ClaimHandling => ~ClaimStartingUp)
    /\ [](pc = "sleep" => ticks >= 1)
    /\ [][ (pc # "sleep" /\ pc' = "sleep") => pc = "check" ]_vars

\* C19 witness: the startup load published an empty set, the task was
\* created, and its first tick has fetched domains it is about to publish.
C19_Witness ==
    /\ pc = "check"
    /\ ticks = 1
    /\ tasks = 1
    /\ disposable_domains = 1
    /\ Published = {}
    /\ heap[updated_set] # {}

====
